---- MODULE Spec2Model ----
(***************************************************************************)
(* A model of the NBA draft-history enrichment pipeline:                   *)
(*   - the Award Enricher      (services/get_award_data.py, main)           *)
(*   - the Identity Resolver   (services/enriching_service.py, main)        *)
(*   - the Name Normalizer     (services/enriching_service.py, treat_name)  *)
(* Each component has its own specification (Spec, SpecResolver, SpecName). *)
(***************************************************************************)
EXTENDS Integers, Sequences, FiniteSets, TLC

VARIABLES
    \* ---- Award Enricher ----
    force,        \* main(force=...)
    force_all,    \* main(force_all=...)
    disk,         \* team -> the team's <team>_enriched.csv
    disk0,        \* disk when the current call of main began
    cache,        \* functools.cache of get_award_data: id -> returned dict, or Miss
    pc,           \* position of main: "run" | "done" | "crashed"
    ti,           \* index of the team the for loop is at
    idx,          \* index into valid_ids of the next id to fetch
    award_map,    \* the local award_map of the team being processed
    netCount,     \* id -> number of requests.get calls made by this process
    attempted,    \* team -> ids get_award_data was called with, this call of main
    netTeam,      \* team -> number of requests.get calls made while processing it
    outcome,      \* team -> "pending" | "skipped" | "written", this call of main
    \* ---- Identity Resolver ----
    rteam,        \* the team of the loop iteration
    curr_df,      \* data/csv/<team>.csv as read: the draft rows
    nba_df,       \* data/players_nba_data.json: the master records
    merged,       \* curr_df_merged
    step1,        \* curr_df_merged as the primary merge left it
    enriched,     \* the rows written to <team>_enriched.csv
    rpc,          \* "start" | "merged" | "resolved" | "written" | "aborted"
    \* ---- Name Normalizer ----
    name,         \* the argument of treat_name
    treated,      \* its result
    npc           \* "call" | "done"

awardVars == << force, force_all, disk, disk0, cache, pc, ti, idx, award_map,
                netCount, attempted, netTeam, outcome >>

resolverVars == << rteam, curr_df, nba_df, merged, step1, enriched, rpc >>

nameVars == << name, treated, npc >>

vars == << awardVars, resolverVars, nameVars >>

(***************************************************************************)
(* Bounds and input domains                                                *)
(***************************************************************************)
MaxRows == 2      \* rows over all the team files together

Teams == << "ATL", "BOS" >>                \* data/teams.json
TeamSet == { Teams[i] : i \in 1..Len(Teams) }

Ids == { 1, 2 }                             \* identity ids
IdCells == { "", "1", "2" }                 \* the nba_id cell of a row, as text
YosCells == { "", "0", "5" }                \* the YOS cell of a row, as text

NaN == [k |-> "nan"]                        \* pandas' missing value
Str(s) == [k |-> "str", s |-> s]            \* a text cell
Dict(d) == [k |-> "dict", d |-> d]          \* a dict held in an object column

\* What the player page can yield: dict[str, int], award name -> count.
EmptyDict == [a \in {} |-> 0]
DictA == [a \in {"All-Star"} |-> 1]
Results == { EmptyDict, DictA }

\* An entry of the cache of get_award_data: a stored return value, or none.
Miss == [hit |-> FALSE, val |-> EmptyDict]
Hit(d) == [hit |-> TRUE, val |-> d]

(***************************************************************************)
(* CSV cells and their conversions                                         *)
(***************************************************************************)
\* str(dict), which DataFrame.to_csv writes for a dict held in a cell.
Repr(d) ==
    IF d = DictA THEN "{'All-Star': 1}" ELSE "{}"

JsonA == "{\"All-Star\": 1}"      \* a non-empty JSON object, as text

\* The awards cell of a row of a file that has an awards column.
AwardTexts == { "", "nan", " ", "NAN", "{}", "[]", Repr(DictA), JsonA }

\* pd.read_csv of one cell: the default NA strings become NaN, any other
\* text stays text (surrounding blanks are kept).
NaTexts == { "", "nan", "NaN", "null", "NA", "N/A", "None" }
ReadCell(text) == IF text \in NaTexts THEN NaN ELSE Str(text)

\* DataFrame.to_csv of one cell: NaN is written as the empty field, a dict
\* as its str().
WriteCell(val) ==
    IF val.k = "nan" THEN ""
    ELSE IF val.k = "dict" THEN Repr(val.d)
    ELSE val.s

\* pd.to_numeric(..., errors="coerce") of an nba_id or YOS cell; NoNum
\* stands for the NaN / <NA> that a cell holding no number becomes.
NoNum == -1
ToNumeric(text) ==
    CASE text = "0" -> 0
      [] text = "1" -> 1
      [] text = "2" -> 2
      [] text = "5" -> 5
      [] OTHER -> NoNum

\* str.strip() and str.lower() on the texts an awards cell can hold.
Strip(s) == IF s = " " THEN "" ELSE s
Lower(s) ==
    CASE s = "NAN" -> "nan"
      [] s = "NaN" -> "nan"
      [] s = "{'All-Star': 1}" -> "{'all-star': 1}"
      [] s = JsonA -> "{\"all-star\": 1}"
      [] OTHER -> s

\* json.loads: the parsed container (kind and length), or a raised error.
\* Python's repr of a dict uses single quotes and is not JSON.
JsonLoads(s) ==
    CASE s = "{}" -> [ok |-> TRUE, kind |-> "dict", len |-> 0]
      [] s = "[]" -> [ok |-> TRUE, kind |-> "list", len |-> 0]
      [] s = JsonA -> [ok |-> TRUE, kind |-> "dict", len |-> 1]
      [] OTHER -> [ok |-> FALSE, kind |-> "error", len |-> 0]

\* As _is_award_empty, with the except branch returning True: text that
\* does not parse counts as empty.
_is_award_empty_unparsable_empty(val) ==
    IF val.k = "nan" THEN TRUE
    ELSE IF val.k = "dict" THEN DOMAIN val.d = {}
    ELSE LET s == Strip(val.s) IN
         IF s = "" \/ Lower(s) = "nan" THEN TRUE
         ELSE LET parsed == JsonLoads(s) IN
              IF ~parsed.ok THEN TRUE
              ELSE parsed.kind \in {"dict", "list"} /\ parsed.len = 0

\* _is_award_empty(val), the closure of main.
_is_award_empty(val) ==
    IF val.k = "nan" THEN TRUE
    ELSE IF val.k = "dict" THEN DOMAIN val.d = {}
    ELSE LET s == Strip(val.s) IN
         IF s = "" \/ Lower(s) = "nan" THEN TRUE
         ELSE LET parsed == JsonLoads(s) IN
              IF ~parsed.ok THEN FALSE
              ELSE IF parsed.kind \in {"dict", "list"} /\ parsed.len = 0 THEN TRUE
              ELSE FALSE

(***************************************************************************)
(* A team file: whether it has an awards column, and its rows.  A row is   *)
(* its nba_id, YOS and awards cells as text (awards is "" when the file    *)
(* has no such column).                                                    *)
(***************************************************************************)
Row(i, y, a) == [nba_id |-> i, YOS |-> y, awards |-> a]

\* curr_df after pd.read_csv: the awards column as values.
ReadAwards(file) ==
    [i \in 1..Len(file.rows) |-> ReadCell(file.rows[i].awards)]

\* nba_id_series and yos_series (lines 77-78).
nba_id_series(file) ==
    [i \in 1..Len(file.rows) |-> ToNumeric(file.rows[i].nba_id)]
yos_series(file) ==
    [i \in 1..Len(file.rows) |->
        LET y == ToNumeric(file.rows[i].YOS) IN IF y = NoNum THEN 0 ELSE y]

\* mask_empty_awards (lines 83-112).
mask_empty_awards(file, f) ==
    IF file.hasAwards /\ ~f
    THEN [i \in 1..Len(file.rows) |-> _is_award_empty(ReadAwards(file)[i])]
    ELSE [i \in 1..Len(file.rows) |-> TRUE]

\* As valid_mask, without the test of yos_series.
valid_mask_no_yos(file, f) ==
    [i \in 1..Len(file.rows) |->
        /\ nba_id_series(file)[i] # NoNum
        /\ mask_empty_awards(file, f)[i]]

\* valid_mask (line 115).
valid_mask(file, f) ==
    [i \in 1..Len(file.rows) |->
        /\ nba_id_series(file)[i] # NoNum
        /\ yos_series(file)[i] # 0
        /\ mask_empty_awards(file, f)[i]]

\* Series.unique(): the distinct values in order of first appearance.
RECURSIVE Unique(_)
Unique(s) ==
    IF s = << >> THEN << >>
    ELSE LET front == Unique(SubSeq(s, 1, Len(s) - 1))
             last == s[Len(s)]
         IN IF \E j \in 1..Len(front) : front[j] = last
            THEN front ELSE Append(front, last)

\* valid_ids (line 116).
valid_ids(file, f) ==
    Unique(SelectSeq([i \in 1..Len(file.rows) |->
                         IF valid_mask(file, f)[i] THEN nba_id_series(file)[i] ELSE NoNum],
                     LAMBDA x : x # NoNum))

\* As WriteBack, with the assignment of the force branch made on both
\* branches: every row's awards are replaced.
WriteBack_all_rows(file, f, amap) ==
    LET vm == valid_mask(file, f)
        ids == nba_id_series(file)
        new_awards(i) ==
            IF vm[i] /\ ids[i] \in DOMAIN amap THEN Dict(amap[ids[i]]) ELSE NaN
    IN [hasAwards |-> TRUE,
        rows |-> [i \in 1..Len(file.rows) |->
                    [file.rows[i] EXCEPT !.awards = WriteCell(new_awards(i))]]]

\* Lines 131-139 and the to_csv of line 142: the file main writes.
WriteBack(file, f, amap) ==
    LET vm == valid_mask(file, f)
        me == mask_empty_awards(file, f)
        ids == nba_id_series(file)
        old == ReadAwards(file)
        new_awards(i) ==
            IF vm[i] /\ ids[i] \in DOMAIN amap THEN Dict(amap[ids[i]]) ELSE NaN
        cell(i) == IF f THEN new_awards(i)
                   ELSE IF me[i] THEN new_awards(i) ELSE old[i]
    IN [hasAwards |-> TRUE,
        rows |-> [i \in 1..Len(file.rows) |->
                    [file.rows[i] EXCEPT !.awards = WriteCell(cell(i))]]]

(***************************************************************************)
(* get_award_data, decorated with functools.cache.  net is what the        *)
(* player page yields if it is requested.  A raised error is not cached    *)
(* (FetchFail below).                                                      *)
(***************************************************************************)
get_award_data_uncached(c, id, net) ==
    [data |-> net, cache |-> c, requests |-> 1]

get_award_data(c, id, net) ==
    IF c[id].hit
    THEN [data |-> c[id].val, cache |-> c, requests |-> 0]
    ELSE [data |-> net, cache |-> [c EXCEPT ![id] = Hit(net)], requests |-> 1]

(***************************************************************************)
(* Award Enricher: main(force, force_all)                                  *)
(***************************************************************************)
NoMap == [i \in {} |-> EmptyDict]
Fresh(v) == [t \in TeamSet |-> v]

\* The rows a team file can hold before the award stage has seen it.
\* Every case of the eligibility rule has its rows: an id that is absent or
\* present, a YOS that is absent, zero or positive, each with no award or
\* with one a run wrote; the other award texts are on rows of one id whose
\* eligibility they alone decide, and two of the empty ones also on rows
\* that are not eligible.
PlainRows ==
    { Row(i, "5", "") : i \in IdCells } \cup { Row("1", y, "") : y \in YosCells }
AwardRows ==
    { Row(i, "5", a) : i \in IdCells, a \in {"", Repr(DictA)} }
    \cup { Row("1", y, a) : y \in YosCells, a \in {"", Repr(DictA)} }
    \cup { Row("1", "5", a) : a \in AwardTexts }
    \cup { Row("1", "0", "{}"), Row("", "5", " ") }
FilesOfLen(n) ==
    { [hasAwards |-> FALSE, rows |-> r] : r \in [1..n -> PlainRows] }
    \cup { [hasAwards |-> TRUE, rows |-> r] : r \in [1..n -> AwardRows] }

InitAward ==
    /\ force \in BOOLEAN
    /\ force_all \in BOOLEAN
    /\ \E n1 \in 0..MaxRows :
         \E n2 \in 0..(MaxRows - n1) :
           \E f1 \in FilesOfLen(n1), f2 \in FilesOfLen(n2) :
              disk = [t \in TeamSet |-> IF t = Teams[1] THEN f1 ELSE f2]
    /\ disk0 = disk
    /\ cache = [i \in Ids |-> Miss]
    /\ pc = "run"
    /\ ti = 1
    /\ idx = 1
    /\ award_map = NoMap
    /\ netCount = [i \in Ids |-> 0]
    /\ attempted = Fresh({})
    /\ netTeam = Fresh(0)
    /\ outcome = Fresh("pending")

CurTeam == Teams[ti]
CurFile == disk[CurTeam]
CurIds == valid_ids(CurFile, force)

\* The for loop moves to the next team, or main returns.
NextTeam ==
    /\ ti' = ti + 1
    /\ pc' = IF ti + 1 > Len(Teams) THEN "done" ELSE "run"
    /\ idx' = 1
    /\ award_map' = NoMap

\* As Skipped, with the negation of force_all lost.
Skipped_inverted(file, fa) == file.hasAwards /\ fa

\* Line 72: the team's file has an awards column and force_all is off.
Skipped(file, fa) == file.hasAwards /\ ~fa

\* Lines 66-74: the team's file is read and the team is skipped.
SkipTeam ==
    /\ pc = "run"
    /\ Skipped(CurFile, force_all)
    /\ outcome' = [outcome EXCEPT ![CurTeam] = "skipped"]
    /\ NextTeam
    /\ UNCHANGED << force, force_all, disk, disk0, cache, netCount, attempted,
                    netTeam >>
    /\ UNCHANGED << resolverVars, nameVars >>

\* Lines 66-128, one iteration of the loop over valid_ids of the team read:
\* get_award_data returns (from its cache, or from the page it requested).
Fetch ==
    /\ pc = "run"
    /\ ~Skipped(CurFile, force_all)
    /\ idx <= Len(CurIds)
    /\ \E net \in Results :
         LET id == CurIds[idx]
             got == get_award_data(cache, id, net)
         IN /\ cache' = got.cache
            /\ netCount' = [netCount EXCEPT ![id] = @ + got.requests]
            /\ netTeam' = [netTeam EXCEPT ![CurTeam] = @ + got.requests]
            /\ attempted' = [attempted EXCEPT ![CurTeam] = @ \cup {id}]
            /\ award_map' = IF DOMAIN got.data = {} THEN award_map
                            ELSE (id :> got.data) @@ award_map
    /\ idx' = idx + 1
    /\ UNCHANGED << force, force_all, disk, disk0, pc, ti, outcome >>
    /\ UNCHANGED << resolverVars, nameVars >>

\* As FetchFail, with the awards fetched so far saved before the error
\* leaves main.
FetchFail_partial_save ==
    /\ pc = "run"
    /\ ~Skipped(CurFile, force_all)
    /\ idx <= Len(CurIds)
    /\ ~cache[CurIds[idx]].hit
    /\ netCount' = [netCount EXCEPT ![CurIds[idx]] = @ + 1]
    /\ netTeam' = [netTeam EXCEPT ![CurTeam] = @ + 1]
    /\ attempted' = [attempted EXCEPT ![CurTeam] = @ \cup {CurIds[idx]}]
    /\ pc' = "crashed"
    /\ disk' = [disk EXCEPT ![CurTeam] = WriteBack(CurFile, force, award_map)]
    /\ UNCHANGED << force, force_all, disk0, cache, ti, idx, award_map, outcome >>
    /\ UNCHANGED << resolverVars, nameVars >>

\* Lines 24-25: requests.get or raise_for_status raises; nothing catches it.
FetchFail ==
    /\ pc = "run"
    /\ ~Skipped(CurFile, force_all)
    /\ idx <= Len(CurIds)
    /\ ~cache[CurIds[idx]].hit
    /\ netCount' = [netCount EXCEPT ![CurIds[idx]] = @ + 1]
    /\ netTeam' = [netTeam EXCEPT ![CurTeam] = @ + 1]
    /\ attempted' = [attempted EXCEPT ![CurTeam] = @ \cup {CurIds[idx]}]
    /\ pc' = "crashed"
    /\ UNCHANGED << force, force_all, disk, disk0, cache, ti, idx, award_map,
                    outcome >>
    /\ UNCHANGED << resolverVars, nameVars >>

\* Lines 131-143: the awards are mapped onto the rows and the file written.
SaveTeam ==
    /\ pc = "run"
    /\ ~Skipped(CurFile, force_all)
    /\ idx > Len(CurIds)
    /\ disk' = [disk EXCEPT ![CurTeam] = WriteBack(CurFile, force, award_map)]
    /\ outcome' = [outcome EXCEPT ![CurTeam] = "written"]
    /\ NextTeam
    /\ UNCHANGED << force, force_all, disk0, cache, netCount, attempted, netTeam >>
    /\ UNCHANGED << resolverVars, nameVars >>

\* main is called again.  In the same process the cache of get_award_data
\* is kept; a new process starts with an empty one.
StartRun ==
    /\ force' \in BOOLEAN
    /\ force_all' \in BOOLEAN
    /\ disk0' = disk
    /\ pc' = "run"
    /\ ti' = 1
    /\ idx' = 1
    /\ award_map' = NoMap
    /\ attempted' = Fresh({})
    /\ netTeam' = Fresh(0)
    /\ outcome' = Fresh("pending")
    /\ UNCHANGED disk

RunAgain ==
    /\ pc = "done"
    /\ StartRun
    /\ UNCHANGED << cache, netCount >>
    /\ UNCHANGED << resolverVars, nameVars >>

NewProcess ==
    /\ pc \in {"done", "crashed"}
    /\ StartRun
    /\ cache' = [i \in Ids |-> Miss]
    /\ netCount' = [i \in Ids |-> 0]
    /\ UNCHANGED << resolverVars, nameVars >>

\* The other components, not running.
IdleAward ==
    /\ force = FALSE
    /\ force_all = FALSE
    /\ disk = Fresh([hasAwards |-> FALSE, rows |-> << >>])
    /\ disk0 = disk
    /\ cache = [i \in Ids |-> Miss]
    /\ pc = "done"
    /\ ti = 1
    /\ idx = 1
    /\ award_map = NoMap
    /\ netCount = [i \in Ids |-> 0]
    /\ attempted = Fresh({})
    /\ netTeam = Fresh(0)
    /\ outcome = Fresh("pending")

IdleResolver ==
    /\ rteam = Teams[1]
    /\ curr_df = << >>
    /\ nba_df = << >>
    /\ merged = << >>
    /\ step1 = << >>
    /\ enriched = << >>
    /\ rpc = "idle"

IdleName ==
    /\ name = << >>
    /\ treated = << >>
    /\ npc = "idle"

\* One call of main, on team files of any content.
Init == InitAward /\ IdleResolver /\ IdleName

Next ==
    \/ SkipTeam
    \/ Fetch
    \/ FetchFail
    \/ SaveTeam

Spec == Init /\ [][Next]_vars

\* The files the Identity Resolver wrote (no awards column yet), then main
\* called any number of times.
InitRerun ==
    /\ InitAward /\ IdleResolver /\ IdleName
    /\ \A t \in TeamSet : ~disk[t].hasAwards

NextRerun ==
    \/ SkipTeam
    \/ Fetch
    \/ FetchFail
    \/ SaveTeam
    \/ RunAgain
    \/ NewProcess

SpecRerun == InitRerun /\ [][NextRerun]_vars

(***************************************************************************)
(* Name Normalizer: treat_name.  A str is a sequence of its characters.    *)
(***************************************************************************)
\* str.endswith
EndsWith(s, suf) ==
    /\ Len(suf) <= Len(s)
    /\ SubSeq(s, Len(s) - Len(suf) + 1, Len(s)) = suf

\* str.removesuffix
removesuffix(s, suf) ==
    IF suf # << >> /\ EndsWith(s, suf) THEN SubSeq(s, 1, Len(s) - Len(suf)) ELSE s

\* str.replace(old, new): every occurrence, found left to right, an
\* occurrence starting only after the end of the one before it.
RECURSIVE ReplaceFrom(_, _, _, _)
ReplaceFrom(s, old, new, i) ==
    IF i > Len(s) THEN << >>
    ELSE IF i + Len(old) - 1 <= Len(s) /\ SubSeq(s, i, i + Len(old) - 1) = old
         THEN new \o ReplaceFrom(s, old, new, i + Len(old))
         ELSE << s[i] >> \o ReplaceFrom(s, old, new, i + 1)
replace(s, old, new) == ReplaceFrom(s, old, new, 1)

\* str.strip()
RECURSIVE lstrip(_)
lstrip(s) == IF s # << >> /\ Head(s) = " " THEN lstrip(Tail(s)) ELSE s
RECURSIVE rstrip(_)
rstrip(s) ==
    IF s # << >> /\ s[Len(s)] = " " THEN rstrip(SubSeq(s, 1, Len(s) - 1)) ELSE s
strip(s) == lstrip(rstrip(s))

SufJr == << " ", "J", "r" >>
SufJrDot == << " ", "J", "r", "." >>
SufII == << " ", "I", "I" >>
SufIII == << " ", "I", "I", "I" >>
SufIV == << " ", "I", "V" >>

\* As treat_name, with every suffix removed as often as it is found.
RECURSIVE StripAll(_)
StripAll(s) ==
    LET t == removesuffix(removesuffix(removesuffix(removesuffix(removesuffix(
                 s, SufJr), SufJrDot), SufII), SufIII), SufIV)
    IN IF t = s THEN s ELSE StripAll(t)
treat_name_recursive(n) ==
    LET a == StripAll(n)
        b == replace(replace(a, << "C", "a", "m" >>, << "C", "a", "m", "e", "r", "o", "n" >>), << "M", "o", "e" >>, << "M", "o", "r", "i", "t", "z" >>)
        c == StripAll(b)
        d == replace(replace(replace(c, << "'" >>, << >>), << "." >>, << >>),
                     << "," >>, << >>)
        e == replace(replace(d, << "-" >>, << " " >>), << " ", " " >>, << " " >>)
    IN strip(e)

\* treat_name (lines 20-34), call by call.
treat_name(n) ==
    LET a == removesuffix(removesuffix(n, SufJr), SufJrDot)
        b == replace(replace(a, << "C", "a", "m" >>, << "C", "a", "m", "e", "r", "o", "n" >>), << "M", "o", "e" >>, << "M", "o", "r", "i", "t", "z" >>)
        c == removesuffix(removesuffix(removesuffix(b, SufII), SufIII), SufIV)
        d == replace(replace(replace(c, << "'" >>, << >>), << "." >>, << >>),
                     << "," >>, << >>)
        e == replace(replace(d, << "-" >>, << " " >>), << " ", " " >>, << " " >>)
    IN strip(e)

\* The names treat_name is given: a display name followed by up to
\* MaxSuffixes generational suffixes.
MaxSuffixes == 2
BaseNames ==
    { << "A", "l", " ", "B", "o" >>,
      << "C", "a", "m", " ", "R", "o" >>,
      << "D", "'", "A", " ", "R", "u" >>,
      << "A", ".", "J", ".", " ", "G", "r" >>,
      << "K", "a", "-", "A", "n", " ", "T", "o" >>,
      << "M", "o", "e", " ", "W", "a" >> }
Suffixes == { SufJr, SufJrDot, SufII, SufIII, SufIV }
RECURSIVE WithSuffixes(_)
WithSuffixes(k) ==
    IF k = 0 THEN BaseNames
    ELSE LET shorter == WithSuffixes(k - 1)
         IN shorter \cup { b \o x : b \in shorter, x \in Suffixes }

InitName ==
    /\ name \in WithSuffixes(MaxSuffixes)
    /\ treated = << >>
    /\ npc = "call"
    /\ IdleAward /\ IdleResolver

TreatName ==
    /\ npc = "call"
    /\ treated' = treat_name(name)
    /\ npc' = "done"
    /\ UNCHANGED << name, awardVars, resolverVars >>

NextName == TreatName

SpecName == InitName /\ [][NextName]_vars

(***************************************************************************)
(* Identity Resolver: one iteration of the loop of enriching_service.main. *)
(***************************************************************************)
MaxDraftRows == 2     \* rows of the team's csv
MaxMaster == 2        \* records of the master table

\* unidecode.unidecode: an accented letter becomes its base letter.
unidecode(s) == [i \in 1..Len(s) |-> IF s[i] = "ó" THEN "o" ELSE s[i]]

\* The join key of lines 48 and 53.
treated_name_of(n) == unidecode(treat_name(n))

DraftSlots ==
    { [Year |-> 2018, Round |-> 1, Pick |-> 5],
      [Year |-> 2018, Round |-> 2, Pick |-> 5],
      [Year |-> 2020, Round |-> 1, Pick |-> 5] }
Players == { << "A", "l", " ", "B", "o", " ", "J", "r" >>, << "C", "y", " ", "D", "i" >> }
MasterNames ==
    { [first_name |-> << "A", "l" >>, last_name |-> << "B", "ó" >>],
      [first_name |-> << "C", "y" >>, last_name |-> << "D", "i" >>] }

\* A row of data/csv/<team>.csv.
DraftRow(team, slot, player) ==
    [Year |-> slot.Year, Round |-> slot.Round, Pick |-> slot.Pick,
     Player |-> player, Team |-> team]

\* The k-th record of the master table: its id and enrichment fields are
\* its own, its draft slot and name are any.
Countries == << "Slovenia", "United States", "France", "Spain" >>
RealTeams == << "DAL", "LAL", "SAS", "MEM" >>
MasterRecord(k, slot, nm) ==
    [nba_id |-> k, first_name |-> nm.first_name, last_name |-> nm.last_name,
     DRAFT_YEAR |-> slot.Year, DRAFT_ROUND |-> slot.Round, DRAFT_NUMBER |-> slot.Pick,
     COUNTRY |-> Countries[k], TO_YEAR |-> slot.Year + k, IS_DEFUNCT |-> k % 2,
     real_team |-> RealTeams[k]]

\* full_name and treated_name of a master record (lines 45-48).
full_name(r) == r.first_name \o << " " >> \o r.last_name
master_treated_name(r) == treated_name_of(full_name(r))

\* The columns a merge adds, from master record r, or all missing.
Enrichment(r) ==
    [nba_id |-> r.nba_id, COUNTRY |-> r.COUNTRY, TO_YEAR |-> r.TO_YEAR,
     IS_DEFUNCT |-> r.IS_DEFUNCT, real_team |-> r.real_team]
NoEnrichment ==
    [nba_id |-> NoNum, COUNTRY |-> "", TO_YEAR |-> NoNum,
     IS_DEFUNCT |-> NoNum, real_team |-> ""]

\* A row of curr_df_merged: the draft row, its treated_name, the merged
\* columns, and src, the position of the draft row in the csv.
MergedRow(row, i, e) ==
    [Year |-> row.Year, Round |-> row.Round, Pick |-> row.Pick,
     Player |-> row.Player, Team |-> row.Team,
     treated_name |-> treated_name_of(row.Player), src |-> i,
     nba_id |-> e.nba_id, COUNTRY |-> e.COUNTRY, TO_YEAR |-> e.TO_YEAR,
     IS_DEFUNCT |-> e.IS_DEFUNCT, real_team |-> e.real_team]

\* DataFrame.merge(how="left"): each left row, in order, once per right
\* row that matches it, in the right table's order, or once with the
\* right columns missing.  Here for one left row: the right columns.
LeftJoinOne(matches) ==
    IF matches = << >> THEN << NoEnrichment >>
    ELSE [j \in 1..Len(matches) |-> Enrichment(matches[j])]

\* Lines 56-62: the matches of a draft row on (Year, Round, Pick).
DraftMatches(row, nba) ==
    SelectSeq(nba, LAMBDA r : /\ r.DRAFT_YEAR = row.Year
                              /\ r.DRAFT_ROUND = row.Round
                              /\ r.DRAFT_NUMBER = row.Pick)

RECURSIVE PrimaryFrom(_, _, _)
PrimaryFrom(curr, nba, i) ==
    IF i > Len(curr) THEN << >>
    ELSE LET es == LeftJoinOne(DraftMatches(curr[i], nba))
         IN [j \in 1..Len(es) |-> MergedRow(curr[i], i, es[j])]
            \o PrimaryFrom(curr, nba, i + 1)
PrimaryMergeOf(curr, nba) == PrimaryFrom(curr, nba, 1)

\* As unmatched_mask, true of every row.
unmatched_mask_all(m) == [i \in 1..Len(m) |-> TRUE]

\* Line 65.
unmatched_mask(m) == [i \in 1..Len(m) |-> m[i].nba_id = NoNum]

\* Lines 77-83: the matches of a row on (treated_name, Year).
NameMatches(row, nba) ==
    SelectSeq(nba, LAMBDA r : /\ master_treated_name(r) = row.treated_name
                              /\ r.DRAFT_YEAR = row.Year)

\* Lines 69-83: unmatched_df after its merge, as the columns it adds.
RECURSIVE UnmatchedFrom(_, _, _)
UnmatchedFrom(m, nba, i) ==
    IF i > Len(m) THEN << >>
    ELSE (IF unmatched_mask(m)[i] THEN LeftJoinOne(NameMatches(m[i], nba)) ELSE << >>)
         \o UnmatchedFrom(m, nba, i + 1)
unmatched_df(m, nba) == UnmatchedFrom(m, nba, 1)

\* The number of rows the mask selects among the first i.
RECURSIVE CountMask(_, _)
CountMask(mask, i) ==
    IF i = 0 THEN 0 ELSE CountMask(mask, i - 1) + (IF mask[i] THEN 1 ELSE 0)

\* Lines 86-90 raise ValueError: the values and the rows selected by the
\* mask differ in number.
AssignRaises(m, nba) ==
    Len(unmatched_df(m, nba)) # CountMask(unmatched_mask(m), Len(m))

\* Lines 86-90: the k-th value goes to the k-th row the mask selects.
AssignFallback(m, nba) ==
    LET mask == unmatched_mask(m)
        vals == unmatched_df(m, nba)
    IN [i \in 1..Len(m) |->
          IF mask[i]
          THEN LET e == vals[CountMask(mask, i)]
               IN [m[i] EXCEPT !.nba_id = e.nba_id, !.COUNTRY = e.COUNTRY,
                               !.TO_YEAR = e.TO_YEAR, !.IS_DEFUNCT = e.IS_DEFUNCT,
                               !.real_team = e.real_team]
          ELSE m[i]]

\* As drop_duplicates, keeping the last row of each key.
RECURSIVE DropKeepLast(_)
DropKeepLast(rows) ==
    IF rows = << >> THEN << >>
    ELSE LET r == Head(rows)
             rest == Tail(rows)
         IN IF \E j \in 1..Len(rest) : /\ rest[j].Year = r.Year
                                       /\ rest[j].Round = r.Round
                                       /\ rest[j].Pick = r.Pick
            THEN DropKeepLast(rest) ELSE << r >> \o DropKeepLast(rest)
drop_duplicates_keep_last(rows) == DropKeepLast(rows)

\* Line 95: drop_duplicates(subset=["Year", "Round", "Pick"]), which keeps
\* the first row of each key.
RECURSIVE drop_duplicates(_)
drop_duplicates(rows) ==
    IF rows = << >> THEN << >>
    ELSE LET front == drop_duplicates(SubSeq(rows, 1, Len(rows) - 1))
             r == rows[Len(rows)]
         IN IF \E j \in 1..Len(front) : /\ front[j].Year = r.Year
                                        /\ front[j].Round = r.Round
                                        /\ front[j].Pick = r.Pick
            THEN front ELSE Append(front, r)

\* get_country_isos: the code of each country name.
get_country_isos(country) ==
    CASE country = "Slovenia" -> "SI"
      [] country = "United States" -> "US"
      [] country = "France" -> "FR"
      [] country = "Spain" -> "ES"
      [] OTHER -> ""

\* Lines 93-108: the columns of the file written.
EnrichedRow(r) ==
    [Year |-> r.Year, Round |-> r.Round, Pick |-> r.Pick, Player |-> r.Player,
     Team |-> r.Team, src |-> r.src, nba_id |-> r.nba_id,
     origin_country |-> get_country_isos(r.COUNTRY),
     played_until_year |-> r.TO_YEAR, is_defunct |-> r.IS_DEFUNCT,
     plays_for |-> r.real_team]

EnrichedOf(m) ==
    LET kept == drop_duplicates(m)
    IN [i \in 1..Len(kept) |-> EnrichedRow(kept[i])]

InitResolver ==
    /\ rteam \in TeamSet
    /\ \E n \in 1..MaxDraftRows :
          curr_df \in [1..n -> { DraftRow(rteam, sl, pl) : sl \in DraftSlots, pl \in Players }]
    /\ \E n \in 0..MaxMaster :
          \E slots \in [1..n -> DraftSlots], names \in [1..n -> MasterNames] :
             nba_df = [k \in 1..n |-> MasterRecord(k, slots[k], names[k])]
    /\ merged = << >>
    /\ step1 = << >>
    /\ enriched = << >>
    /\ rpc = "start"
    /\ IdleAward /\ IdleName

\* Lines 51-62: the csv is read and merged on the draft slot.
PrimaryMerge ==
    /\ rpc = "start"
    /\ merged' = PrimaryMergeOf(curr_df, nba_df)
    /\ step1' = merged'
    /\ rpc' = "merged"
    /\ UNCHANGED << rteam, curr_df, nba_df, enriched, awardVars, nameVars >>

\* Lines 65-90: the rows without an id are merged on name and year and
\* the result is copied into curr_df_merged.
Fallback ==
    /\ rpc = "merged"
    /\ ~AssignRaises(merged, nba_df)
    /\ merged' = AssignFallback(merged, nba_df)
    /\ rpc' = "resolved"
    /\ UNCHANGED << rteam, curr_df, nba_df, step1, enriched, awardVars, nameVars >>

\* Lines 86: the copy raises ValueError, which leaves main.
FallbackRaises ==
    /\ rpc = "merged"
    /\ AssignRaises(merged, nba_df)
    /\ rpc' = "aborted"
    /\ UNCHANGED << rteam, curr_df, nba_df, merged, step1, enriched, awardVars,
                    nameVars >>

\* Lines 93-117: the columns are cleaned, duplicates dropped and the file
\* written.
WriteEnriched ==
    /\ rpc = "resolved"
    /\ enriched' = EnrichedOf(merged)
    /\ rpc' = "written"
    /\ UNCHANGED << rteam, curr_df, nba_df, merged, step1, awardVars, nameVars >>

NextResolver ==
    \/ PrimaryMerge
    \/ Fallback
    \/ FallbackRaises
    \/ WriteEnriched

SpecResolver == InitResolver /\ [][NextResolver]_vars

(***************************************************************************)
(* The Identity Resolver's properties.                                     *)
(***************************************************************************)
EnrichmentOf(r) ==
    [nba_id |-> r.nba_id, COUNTRY |-> r.COUNTRY, TO_YEAR |-> r.TO_YEAR,
     IS_DEFUNCT |-> r.IS_DEFUNCT, real_team |-> r.real_team]

MasterSet == { nba_df[k] : k \in 1..Len(nba_df) }

\* The master records that match a row by normalized name and year.
FallbackCandidates(row) ==
    { r \in MasterSet : /\ master_treated_name(r) = treated_name_of(row.Player)
                        /\ r.DRAFT_YEAR = row.Year }

\* C1: after the fallback pass a row that the primary pass matched has the
\* nba_id, COUNTRY, TO_YEAR, IS_DEFUNCT and real_team the primary pass set,
\* and a row it left unmatched has those of a master record that matches
\* the row itself by normalized name and year, or none if there is none.
C1_FallbackOnlyUnmatched ==
    rpc \in {"resolved", "written"} =>
       /\ Len(merged) = Len(step1)
       /\ \A i \in 1..Len(step1) :
             IF step1[i].nba_id # NoNum
             THEN merged[i] = step1[i]
             ELSE /\ [merged[i] EXCEPT !.nba_id = NoNum, !.COUNTRY = "",
                                       !.TO_YEAR = NoNum, !.IS_DEFUNCT = NoNum,
                                       !.real_team = ""] = step1[i]
                  /\ IF FallbackCandidates(step1[i]) = {}
                     THEN EnrichmentOf(merged[i]) = NoEnrichment
                     ELSE \E r \in FallbackCandidates(step1[i]) :
                             EnrichmentOf(merged[i]) = Enrichment(r)

\* The fallback pass ran on a table with a row the primary pass matched,
\* for which another master record is a fallback candidate, and a row it
\* left unmatched, which the fallback pass matched.
C1_Witness ==
    /\ rpc = "resolved"
    /\ \E i \in 1..Len(step1) :
          /\ step1[i].nba_id # NoNum
          /\ \E r \in FallbackCandidates(step1[i]) : r.nba_id # step1[i].nba_id
    /\ \E i \in 1..Len(step1) :
          /\ step1[i].nba_id = NoNum
          /\ merged[i].nba_id # NoNum

\* C2: the resolver does not abort, and in the file it writes every draft
\* row whose (Year, Round, Pick) no other draft row shares is there exactly
\* once, with missing enrichment fields if no master record matches it in
\* either pass.
Slot(r) == << r.Year, r.Round, r.Pick >>
UnsharedSlot(i) ==
    \A j \in 1..Len(curr_df) : j # i => Slot(curr_df[j]) # Slot(curr_df[i])
RowsKept ==
    rpc = "written" =>
       \A i \in 1..Len(curr_df) :
          UnsharedSlot(i) =>
             /\ Cardinality({ k \in 1..Len(enriched) : enriched[k].src = i }) = 1
             /\ (DraftMatches(curr_df[i], nba_df) = << >>
                   /\ FallbackCandidates(curr_df[i]) = {})
                  => \E k \in 1..Len(enriched) :
                        /\ enriched[k].src = i
                        /\ enriched[k].nba_id = NoNum
                        /\ enriched[k].origin_country = ""
                        /\ enriched[k].played_until_year = NoNum
                        /\ enriched[k].is_defunct = NoNum
                        /\ enriched[k].plays_for = ""
C2_EveryRowOnce == rpc # "aborted" /\ RowsKept

\* C3: in the file written no two rows have the same (Team, Year, Round,
\* Pick); every key of the merged table is there, and its row is the first
\* row of the merged table with that key.
Key(r) == << r.Team, r.Year, r.Round, r.Pick >>
C3_KeysUniqueFirstKept ==
    rpc = "written" =>
       /\ \A i, j \in 1..Len(enriched) : Key(enriched[i]) = Key(enriched[j]) => i = j
       /\ \A i \in 1..Len(merged) :
             \E k \in 1..Len(enriched) : Key(enriched[k]) = Key(merged[i])
       /\ \A k \in 1..Len(enriched) :
             LET first == CHOOSE i \in 1..Len(merged) :
                             /\ Key(merged[i]) = Key(enriched[k])
                             /\ \A j \in 1..(i - 1) : Key(merged[j]) # Key(enriched[k])
             IN enriched[k] = EnrichedRow(merged[first])
       /\ \A k1, k2 \in 1..Len(enriched) :
             k1 < k2 => \E i1, i2 \in 1..Len(merged) :
                           /\ i1 < i2
                           /\ enriched[k1] = EnrichedRow(merged[i1])
                           /\ enriched[k2] = EnrichedRow(merged[i2])

\* A file was written from a merged table with two rows of one key and
\* different identity ids; the second is not in the file.
C3_Witness ==
    /\ rpc = "written"
    /\ \E i, j \in 1..Len(merged) :
          /\ i < j
          /\ Key(merged[i]) = Key(merged[j])
          /\ merged[i].nba_id # merged[j].nba_id
          /\ \A k \in 1..Len(enriched) : enriched[k].nba_id # merged[j].nba_id

(***************************************************************************)
(* The Name Normalizer's properties.                                       *)
(***************************************************************************)
ClaimSuffixes == { SufJr, SufII, SufIII, SufIV }
EndsInSuffix(n) == \E x \in ClaimSuffixes : EndsWith(n, x)
TheSuffix(n) == CHOOSE x \in ClaimSuffixes : EndsWith(n, x)
Rest(n) == SubSeq(n, 1, Len(n) - Len(TheSuffix(n)))

Contains(s, part) ==
    \E i \in 1..Len(s) :
        i + Len(part) - 1 <= Len(s) /\ SubSeq(s, i, i + Len(part) - 1) = part
HasNickname(n) ==
    Contains(n, << "C", "a", "m" >>) \/ Contains(n, << "M", "o", "e" >>)
Nicknamed(n) ==
    replace(replace(n, << "C", "a", "m" >>, << "C", "a", "m", "e", "r", "o", "n" >>),
            << "M", "o", "e" >>, << "M", "o", "r", "i", "t", "z" >>)

\* Nothing in n for the steps after the suffixes to rewrite.
Plain(n) ==
    /\ \A i \in 1..Len(n) : n[i] \notin { "'", ".", ",", "-" }
    /\ ~Contains(n, << " ", " " >>)
    /\ n # << >> => (n[1] # " " /\ n[Len(n)] # " ")

\* The suffixes that treat_name removes in a later call than x.
LaterSuffixes(x) ==
    IF x = SufJr THEN { SufJrDot, SufII, SufIII, SufIV }
    ELSE IF x = SufII THEN { SufIII, SufIV }
    ELSE IF x = SufIII THEN { SufIV }
    ELSE {}

\* C10 as stated: a name that ends in " Jr", " II", " III" or " IV" and
\* holds no nickname comes back as the name without that suffix, nothing
\* else changed.
C10_OnlySuffixRemoved ==
    (npc = "done" /\ EndsInSuffix(name) /\ ~HasNickname(name))
       => treated = Rest(name)

\* C10, amended: a name that ends in " Jr", " II", " III" or " IV" comes
\* back as the name without that suffix, with its nicknames replaced and
\* nothing else changed, provided that what precedes the suffix holds no
\* apostrophe, period, comma, hyphen, double space or outer space and does
\* not end in a suffix that a later call removes; a suffix that is there
\* twice is removed once.
C10_SuffixRemovedOnce ==
    (/\ npc = "done"
     /\ EndsInSuffix(name)
     /\ Plain(Rest(name))
     /\ \A y \in LaterSuffixes(TheSuffix(name)) : ~EndsWith(Rest(name), y))
       => treated = Nicknamed(Rest(name))

\* treat_name returned for a name that ends in the same suffix twice, and
\* for none of the steps after the suffixes to rewrite.
C10_Witness ==
    /\ npc = "done"
    /\ EndsInSuffix(name)
    /\ Plain(Rest(name))
    /\ EndsWith(Rest(name), TheSuffix(name))
    /\ treated = Rest(name)

(***************************************************************************)
(* The Award Enricher's properties.  Eligibility is restated here from the *)
(* specification's words, on the cells as they are on disk.                *)
(***************************************************************************)
\* An awards cell that is empty: missing, blank, the text "nan" (in any
\* letter case), or text that parses as an empty object or list.
EmptyAwardTexts == { "", " ", "nan", "NAN", "{}", "[]" }

\* A row is eligible: identity id present, YOS present and not zero, and
\* force, or no awards value, or an empty one.
Eligible(file, i, f) ==
    /\ file.rows[i].nba_id # ""
    /\ file.rows[i].YOS \notin {"", "0"}
    /\ (f \/ ~file.hasAwards \/ file.rows[i].awards \in EmptyAwardTexts)

IdOf(file, i) == ToNumeric(file.rows[i].nba_id)
EligibleIds(file, f) ==
    { IdOf(file, i) : i \in { j \in 1..Len(file.rows) : Eligible(file, j, f) } }

\* Every row that could ever be fetched for has an awards value.
FullyPopulated(file) ==
    /\ file.hasAwards
    /\ \A i \in 1..Len(file.rows) :
          (file.rows[i].nba_id # "" /\ file.rows[i].YOS \notin {"", "0"})
             => file.rows[i].awards \notin EmptyAwardTexts

\* C4: once a team's file has been written by an enrichment run and every
\* row that can have awards has them, a further call of main with
\* force = false (force_all on or off, same process or a new one) calls
\* get_award_data for no id of the team, makes no request while at the team
\* and leaves the team's file exactly as it was.
C4_RerunIsNoOp ==
    \A t \in TeamSet :
        (~force /\ FullyPopulated(disk0[t]))
           => /\ attempted[t] = {}
              /\ netTeam[t] = 0
              /\ disk[t] = disk0[t]

\* A second call of main, in a new process, with force off and force_all on,
\* has rewritten a populated file that holds an award.
C4_Witness ==
    \E t \in TeamSet :
        /\ ~force /\ force_all
        /\ FullyPopulated(disk0[t])
        /\ outcome[t] = "written"
        /\ \A i \in Ids : ~cache[i].hit
        /\ \E i \in 1..Len(disk0[t].rows) :
              /\ Eligible(disk0[t], i, TRUE)
              /\ disk0[t].rows[i].awards = Repr(DictA)

\* C5: in one run each identity id is requested at most once, exactly once
\* if get_award_data was called for it, whatever the number of rows and
\* teams that share it; and any two eligible rows of written teams that
\* share an id hold the same awards text.
C5_OneFetchPerId ==
    /\ \A id \in Ids :
          /\ netCount[id] <= 1
          /\ (\E t \in TeamSet : id \in attempted[t]) => netCount[id] = 1
    /\ \A t1, t2 \in TeamSet :
          (outcome[t1] = "written" /\ outcome[t2] = "written")
             => \A i \in 1..Len(disk0[t1].rows), j \in 1..Len(disk0[t2].rows) :
                   (/\ Eligible(disk0[t1], i, force)
                    /\ Eligible(disk0[t2], j, force)
                    /\ IdOf(disk0[t1], i) = IdOf(disk0[t2], j))
                      => disk[t1].rows[i].awards = disk[t2].rows[j].awards

\* Both teams were written, each has an eligible row of id 1, one request
\* was made for it and both rows hold the award.
C5_Witness ==
    /\ \A t \in TeamSet :
          /\ outcome[t] = "written"
          /\ attempted[t] = {1}
          /\ \E i \in 1..Len(disk[t].rows) :
                /\ Eligible(disk0[t], i, force)
                /\ disk[t].rows[i].awards = Repr(DictA)
    /\ netCount[1] = 1

\* C6: while a team is processed get_award_data is called only for ids of
\* eligible rows, and by the time the team's file is written it has been
\* called for every such id.
C6_FetchIffEligible ==
    \A t \in TeamSet :
        /\ attempted[t] \subseteq EligibleIds(disk0[t], force)
        /\ outcome[t] = "written" => attempted[t] = EligibleIds(disk0[t], force)

\* A team was written with force off: its row with an empty object was
\* fetched for, its row with text that does not parse was not, and neither
\* was its row with YOS zero.
C6_Witness ==
    \E t \in TeamSet :
        /\ ~force
        /\ outcome[t] = "written"
        /\ disk0[t].hasAwards
        /\ attempted[t] = {1}
        /\ \E i, j \in 1..Len(disk0[t].rows) :
              /\ disk0[t].rows[i] = Row("1", "5", "{}")
              /\ disk0[t].rows[j] = Row("2", "5", Repr(DictA))

\* The awards text a fetch for the row's id leaves in the row.
FetchedText(file, i) ==
    LET got == cache[IdOf(file, i)].val
    IN IF DOMAIN got = {} THEN "" ELSE Repr(got)

C8_SkipRule ==
    \A n \in 1..Len(Teams) :
        LET t == Teams[n] IN
        (disk0[t].hasAwards /\ ~force_all)
           => /\ attempted[t] = {}
              /\ netTeam[t] = 0
              /\ disk[t] = disk0[t]
              /\ outcome[t] # "written"
              /\ ~(pc = "crashed" /\ ti = n)
              /\ ti > n => outcome[t] = "skipped"
              /\ (ti = n + 1 /\ n < Len(Teams) /\ attempted[Teams[ti]] = {}
                    /\ outcome[Teams[ti]] = "pending") => pc = "run"

\* With force on and force_all off the first team, which has rows and an
\* awards column, was skipped and the second, which had none, was written.
C8_Witness ==
    /\ force /\ ~force_all
    /\ disk0[Teams[1]].hasAwards
    /\ Len(disk0[Teams[1]].rows) > 0
    /\ EligibleIds(disk0[Teams[1]], force) # {}
    /\ outcome[Teams[1]] = "skipped"
    /\ outcome[Teams[2]] = "written"

\* C9: when a request fails main stops there: the id was requested once,
\* no later id of the team and no later team was touched, and the file of
\* the team being processed still holds what it held before the run; a
\* file is written only once every eligible id of its team was fetched.
C9_FailureStopsRun ==
    /\ pc = "crashed" =>
          /\ netCount[CurIds[idx]] = 1
          /\ ~cache[CurIds[idx]].hit
          /\ attempted[CurTeam] = { CurIds[k] : k \in 1..idx }
          /\ disk[CurTeam] = disk0[CurTeam]
          /\ outcome[CurTeam] = "pending"
          /\ \A n \in (ti + 1)..Len(Teams) :
                /\ attempted[Teams[n]] = {}
                /\ outcome[Teams[n]] = "pending"
                /\ disk[Teams[n]] = disk0[Teams[n]]
    /\ \A t \in TeamSet :
          outcome[t] = "written" => EligibleIds(disk0[t], force) \subseteq attempted[t]

\* The request for the second id of the second team failed after the first
\* id yielded an award and after the first team was written.
C9_Witness ==
    /\ pc = "crashed"
    /\ ti = Len(Teams)
    /\ idx > 1
    /\ award_map # NoMap
    /\ outcome[Teams[1]] = "written"
    /\ disk0[CurTeam] # WriteBack(disk0[CurTeam], force, award_map)

====
